---- MODULE Spec2Model ----
(***************************************************************************)
(* Model of Bio/SeqIO/AbiIO.py: the generator AbiIterator, the directory    *)
(* generator _abi_parse_header, the tag decoder _Dir._unpack_tag and the    *)
(* quality trimmer _abi_trim.                                               *)
(*                                                                          *)
(* Conventions.                                                             *)
(*  - Python 2 semantics (the code's target): a str read from the handle is *)
(*    a sequence of one-character strings; a character is a token such as   *)
(*    "A" or "chr10", and ord is the table ord below.                       *)
(*  - A Python value is a record [kind, val]; kind is "None", "str",        *)
(*    "list", "tuple", "int", "bool" or "unbound" (a local variable that    *)
(*    was never assigned); val is always a tuple.                           *)
(*  - The handle is the environment: what a read returns is chosen when the *)
(*    read happens.  Reads are assumed to return as many bytes as asked     *)
(*    for, except the first read of 4 bytes, which may return nothing.      *)
(*    Seek offsets are not modelled, only the number of seeks and reads.    *)
(*  - Scores are in units of 1/Scale; 10^(-q/10) is exact in these units    *)
(*    for the quality values drawn (multiples of 10 up to 50).              *)
(***************************************************************************)
EXTENDS Integers, Sequences, FiniteSets, TLC

VARIABLES
    arg_alphabet,   \* the alphabet argument as the caller passed it
    alphabet,       \* the local variable alphabet (reassigned at PBAS2)
    trim,           \* the trim argument
    mode,           \* handle.mode, or "absent" when the handle has none
    pc,             \* position in AbiIterator / _abi_trim
    io,             \* number of seek and read calls made on the handle
    marker,         \* result of handle.read(4)
    header,         \* the unpacked header, <<>> before it is unpacked
    index,          \* _abi_parse_header's index
    entry,          \* the loop variable entry (a _Dir object)
    seq, qual, sample_id, times, annot,
    tag_elem_num,   \* history: elem_num of the entries seq and qual came from
    record,         \* the assembled SeqRecord
    yielded,        \* the records the generator has yielded so far
    error,          \* the exception that ended the generator, or "none"
    start, trim_start, score_list, cummul_score, i, trim_finish,
    trimmed         \* the value returned by _abi_trim

vars == <<arg_alphabet, alphabet, trim, mode, pc, io, marker, header, index,
          entry, seq, qual, sample_id, times, annot, tag_elem_num, record,
          yielded, error, start, trim_start, score_list, cummul_score, i,
          trim_finish, trimmed>>

iterVars == <<arg_alphabet, alphabet, trim, mode, io, marker, header, index,
              entry, seq, qual, sample_id, times, annot, tag_elem_num,
              yielded, error>>

trimVars == <<start, trim_start, score_list, cummul_score, i, trim_finish,
              trimmed>>

----------------------------------------------------------------------------
(* Bounds of the model *)

\* largest number of directory entries a header announces
MaxDir == 4
\* number of record lengths above the trimming threshold that are drawn
MaxOver == 1

----------------------------------------------------------------------------
(* Python values *)

None == [kind |-> "None", val |-> <<>>]
Unbound == [kind |-> "unbound", val |-> <<>>]
StrVal(s) == [kind |-> "str", val |-> s]
ListVal(l) == [kind |-> "list", val |-> l]
TupleVal(t) == [kind |-> "tuple", val |-> t]
IntVal(n) == [kind |-> "int", val |-> <<n>>]
BoolVal(b) == [kind |-> "bool", val |-> <<b>>]

Min(a, b) == IF a <= b THEN a ELSE b
Max(a, b) == IF a >= b THEN a ELSE b

Range(s) == {s[k] : k \in DOMAIN s}

\* s[a:b] for 0 <= a, 0 <= b
PySlice(s, a, b) == SubSeq(s, a + 1, Min(b, Len(s)))

\* ord() of the characters that occur
ord(c) ==
    CASE c = "chr0" -> 0
      [] c = "chr1" -> 1
      [] c = "chr2" -> 2
      [] c = "chr10" -> 10
      [] c = "chr30" -> 30
      [] c = "chr40" -> 40
      [] c = "A" -> 65
      [] c = "C" -> 67
      [] c = "K" -> 75
      [] c = "s" -> 115
      [] c = "w" -> 119

\* '%s' % v
FormatS(v) ==
    IF v.kind = "None" THEN <<"N", "o", "n", "e">> ELSE v.val

\* '%s %s' % (a, b)
FormatPair(a, b) == StrVal(FormatS(a) \o <<" ">> \o FormatS(b))

DigitChar(d) ==
    CASE d = 0 -> "0" [] d = 1 -> "1" [] d = 2 -> "2" [] d = 3 -> "3"
      [] d = 4 -> "4" [] d = 5 -> "5" [] d = 6 -> "6" [] d = 7 -> "7"
      [] d = 8 -> "8" [] d = 9 -> "9"

\* n written in decimal with w digits, zero padded
RECURSIVE ZeroPad(_, _)
ZeroPad(n, w) ==
    IF w = 0 THEN <<>> ELSE Append(ZeroPad(n \div 10, w - 1), DigitChar(n % 10))

\* str(datetime.date(y, m, d))
DateStr(d) == ZeroPad(d[1], 4) \o <<"-">> \o ZeroPad(d[2], 2) \o <<"-">> \o ZeroPad(d[3], 2)

\* str(datetime.time(h, m, s))
TimeStr(t) == ZeroPad(t[1], 2) \o <<":">> \o ZeroPad(t[2], 2) \o <<":">> \o ZeroPad(t[3], 2)

----------------------------------------------------------------------------
(* Module tables *)

_EXTRACT_keys == {"TUBE1", "DySN1", "GTyp1", "MODL1"}

_EXTRACT(key) ==
    CASE key = "TUBE1" -> "sample_well"
      [] key = "DySN1" -> "dye"
      [] key = "GTyp1" -> "polymer"
      [] key = "MODL1" -> "machine_model"

_SPCTAGS == {"PBAS2", "PCON2", "SMPL1", "RUND1", "RUND2", "RUNT1", "RUNT2"}

\* the element type codes that have an unpacking format
_BYTEFMT_codes == (1..8) \cup (10..20)

TimeKeys == {"RUND1", "RUND2", "RUNT1", "RUNT2"}

ambigs == {"K", "Y", "W", "M", "R", "S"}

----------------------------------------------------------------------------
(* Bio.Alphabet, as far as AbiIterator uses it *)

\* Alphabet._get_base_alphabet: the alphabet inside a Gapped wrapper
_get_base_alphabet(a) ==
    CASE a = "Gapped(generic_protein)" -> "generic_protein"
      [] a = "Gapped(generic_dna)" -> "generic_dna"
      [] OTHER -> a

\* isinstance(a, Alphabet.ProteinAlphabet)
IsProteinAlphabet(a) == a \in {"generic_protein", "IUPAC.protein"}

\* isinstance(a, Alphabet.RNAAlphabet)
IsRNAAlphabet(a) == a \in {"generic_rna", "IUPAC.unambiguous_rna"}

----------------------------------------------------------------------------
(* _Dir *)

\* bool(data) of an unpacked value: a number is true when non-zero, a tuple
\* when non-empty
PyBool(raw) == IF Len(raw) = 1 THEN raw[1] # 0 ELSE Len(raw) > 0

\* _unpack_tag giving an empty str for a code without a format (faulty
\* variant)
_unpack_tag_Empty(d) ==
    IF d.elem_code \in _BYTEFMT_codes
    THEN LET unwrap == d.elem_code \notin {10, 11} /\ Len(d.raw) = 1
             data == IF unwrap THEN d.raw[1] ELSE d.raw
         IN  CASE d.elem_code = 10 -> StrVal(DateStr(data))
               [] d.elem_code = 11 -> StrVal(TimeStr(SubSeq(data, 1, 3)))
               [] d.elem_code = 13 -> BoolVal(PyBool(d.raw))
               [] d.elem_code = 18 -> StrVal(SubSeq(data, 2, Len(data)))
               [] d.elem_code = 19 -> StrVal(SubSeq(data, 1, Len(data) - 1))
               [] d.elem_code = 2 -> StrVal(data)
               [] OTHER -> IF unwrap THEN IntVal(data) ELSE TupleVal(data)
    ELSE StrVal(<<>>)

\* _Dir._unpack_tag.  d.raw is what struct.unpack returns for the format of
\* d.elem_code: a 1-tuple holding one str for the 's' formats, a tuple of
\* numbers otherwise.
_unpack_tag(d) ==
    IF d.elem_code \in _BYTEFMT_codes
    THEN LET unwrap == d.elem_code \notin {10, 11} /\ Len(d.raw) = 1
             data == IF unwrap THEN d.raw[1] ELSE d.raw
         IN  CASE d.elem_code = 10 -> StrVal(DateStr(data))
               [] d.elem_code = 11 -> StrVal(TimeStr(SubSeq(data, 1, 3)))
               [] d.elem_code = 13 -> BoolVal(PyBool(d.raw))
               [] d.elem_code = 18 -> StrVal(SubSeq(data, 2, Len(data)))
               [] d.elem_code = 19 -> StrVal(SubSeq(data, 1, Len(data) - 1))
               [] d.elem_code = 2 -> StrVal(data)
               [] OTHER -> IF unwrap THEN IntVal(data) ELSE TupleVal(data)
    ELSE None

\* _Dir.__init__: the object built from a directory entry
_Dir(d) ==
    [tag_name |-> d.tag_name, tag_number |-> d.tag_number,
     elem_code |-> d.elem_code, elem_num |-> d.elem_num,
     tag_data |-> _unpack_tag(d)]

NoEntry ==
    [tag_name |-> "", tag_number |-> 0, elem_code |-> 0, elem_num |-> 0,
     tag_data |-> Unbound]

\* key = tag_name + str(tag_number)
KeyOf(d) == d.tag_name \o ToString(d.tag_number)

----------------------------------------------------------------------------
(* What the handle can hold *)

ABIF == <<"A", "B", "I", "F">>

Markers == {<<>>, ABIF, <<"X", "X", "I", "F">>}

Alphabets == {"None", "generic_dna", "generic_protein",
              "Gapped(generic_protein)", "generic_rna"}

HandleModes == {<<>>, <<"r", "b">>, <<"r">>}

\* _abi_trim: minimum sequence length
segment == 20

\* a record longer than the trimming threshold
LongLen == segment + 1

LongSeq == [k \in 1..LongLen |-> IF k = 1 THEN "K" ELSE IF k % 2 = 0 THEN "A" ELSE "C"]

LongQual == [k \in 1..LongLen |-> IF k <= 2 \/ k > LongLen - 2 THEN "chr10" ELSE "chr30"]

\* a directory entry whose data is a string of characters
CharEntry(name, number, code, s) ==
    [tag_name |-> name, tag_number |-> number, elem_code |-> code,
     elem_num |-> Len(s), raw |-> <<s>>]

\* a directory entry whose data is one date or one time
NumEntry(name, number, code, t) ==
    [tag_name |-> name, tag_number |-> number, elem_code |-> code,
     elem_num |-> 1, raw |-> t]

\* 9 is an element type code without an unpacking format
DirEntries ==
    {CharEntry("PBAS", 2, 2, s) : s \in {<<"A", "C">>, <<"A", "K">>, LongSeq}}
    \cup {CharEntry("PBAS", 2, c, <<"A", "K">>) : c \in {19, 9}}
    \cup {CharEntry("PCON", 2, 2, s) :
            s \in {<<"chr10", "chr30">>, <<"chr30">>, LongQual}}
    \cup {CharEntry("PCON", 2, 9, <<"chr30">>)}
    \cup {CharEntry("SMPL", 1, 18, <<"chr1", "s">>)}
    \cup {CharEntry("TUBE", 1, c, <<"chr1", "w">>) : c \in {18, 9}}
    \cup {NumEntry("RUND", 1, 10, <<2011, 6, 1>>),
          CharEntry("PBAS", 1, 2, <<"A", "C">>)}

----------------------------------------------------------------------------
(* Bio.Seq and Bio.SeqRecord, as far as AbiIterator and _abi_trim use them *)

AnnotKeys == {"sample_well", "dye", "polymer", "machine_model",
              "run_start", "run_finish"}

NoRecord ==
    [kind |-> "unbound", seq |-> <<>>, alphabet |-> "None", id |-> Unbound,
     name |-> <<>>, annotations |-> [k \in AnnotKeys |-> Unbound],
     phred_quality |-> <<>>]

Raise(e) == [kind |-> e]

\* SeqRecord without the length restriction (faulty variant)
SeqRecord_NoLengthCheck(s, alpha, id, name, annotations, phred) ==
    [kind |-> "SeqRecord", seq |-> s.val, alphabet |-> alpha, id |-> id,
     name |-> name, annotations |-> annotations, phred_quality |-> phred.val]

\* SeqRecord(Seq(s, alpha), id=..., name=..., description='', annotations=...,
\* letter_annotations={'phred_quality': phred}): a per-letter annotation must
\* be as long as the sequence
SeqRecord(s, alpha, id, name, annotations, phred) ==
    IF Len(phred.val) # Len(s.val)
    THEN Raise("TypeError")
    ELSE [kind |-> "SeqRecord", seq |-> s.val, alphabet |-> alpha, id |-> id,
          name |-> name, annotations |-> annotations,
          phred_quality |-> phred.val]

\* seq_record[a:b]: bases and per-letter annotations are sliced alike, the
\* rest is carried over
SliceRecord(r, a, b) ==
    [r EXCEPT !.seq = PySlice(r.seq, a, b),
              !.phred_quality = PySlice(r.phred_quality, a, b)]

----------------------------------------------------------------------------
(* AbiIterator *)

Unread == <<"unread">>

NoHeader == [unpacked |-> FALSE, head_elem_num |-> 0]

Init ==
    /\ arg_alphabet \in Alphabets
    /\ alphabet = arg_alphabet
    /\ trim \in BOOLEAN
    /\ mode \in HandleModes
    /\ pc = "alphabet"
    /\ io = 0
    /\ marker = Unread
    /\ header = NoHeader
    /\ index = 0
    /\ entry = NoEntry
    /\ seq = Unbound /\ qual = Unbound /\ sample_id = Unbound
    /\ times = [k \in TimeKeys |-> Unbound]
    /\ annot = [k \in AnnotKeys |-> Unbound]
    /\ tag_elem_num = [k \in {"PBAS2", "PCON2"} |-> 0]
    /\ record = NoRecord
    /\ yielded = <<>>
    /\ error = "none"
    /\ start = FALSE /\ trim_start = 0 /\ score_list = <<>>
    /\ cummul_score = <<>> /\ i = 0 /\ trim_finish = 0
    /\ trimmed = NoRecord

\* the generator ends by raising e
Fail(e) == pc' = "done" /\ error' = e

\* AlphabetCheck with the RNA test left out (faulty variant)
AlphabetCheck_NoRNA(a) ==
    IF a # "None" /\ IsProteinAlphabet(_get_base_alphabet(a))
    THEN "ValueError: proteins"
    ELSE "none"

\* lines 82-88: the exception raised for alphabet a, or "none"
AlphabetCheck(a) ==
    IF a # "None" /\ IsProteinAlphabet(_get_base_alphabet(a))
    THEN "ValueError: proteins"
    ELSE IF a # "None" /\ IsRNAAlphabet(_get_base_alphabet(a))
    THEN "ValueError: RNA"
    ELSE "none"

\* lines 82-88
CheckAlphabet ==
    /\ pc = "alphabet"
    /\ IF AlphabetCheck(alphabet) # "none"
       THEN Fail(AlphabetCheck(alphabet))
       ELSE pc' = "mode" /\ error' = error
    /\ UNCHANGED <<arg_alphabet, alphabet, trim, mode, io, marker, header,
                   index, entry, seq, qual, sample_id, times, annot,
                   tag_elem_num, record, yielded>>
    /\ UNCHANGED trimVars

\* lines 91-93; mode = <<>> is a handle without a mode attribute
CheckMode ==
    /\ pc = "mode"
    /\ IF mode # <<>> /\ {"r", "b"} # Range(mode)
       THEN Fail("ValueError: mode")
       ELSE pc' = "marker" /\ error' = error
    /\ UNCHANGED <<arg_alphabet, alphabet, trim, mode, io, marker, header,
                   index, entry, seq, qual, sample_id, times, annot,
                   tag_elem_num, record, yielded>>
    /\ UNCHANGED trimVars

\* MarkerCheck without the test for an empty read (faulty variant)
MarkerCheck_NoEmpty(m) ==
    IF m # ABIF THEN "IOError" ELSE "ok"

\* MarkerCheck without the test of the magic bytes (faulty variant)
MarkerCheck_NoMagic(m) ==
    IF m = <<>> THEN "StopIteration" ELSE "ok"

\* lines 98-102: what the marker read leads to
MarkerCheck(m) ==
    IF m = <<>> THEN "StopIteration"
    ELSE IF m # ABIF THEN "IOError"
    ELSE "ok"

\* lines 96-102: seek(0), read(4); raise StopIteration ends the generator
\* without an error
ReadMarker ==
    /\ pc = "marker"
    /\ \E m \in Markers :
        /\ marker' = m
        /\ IF MarkerCheck(m) = "StopIteration"
           THEN pc' = "done" /\ error' = error
           ELSE IF MarkerCheck(m) = "IOError"
           THEN Fail("IOError")
           ELSE pc' = "header" /\ error' = error
    /\ io' = io + 2
    /\ UNCHANGED <<arg_alphabet, alphabet, trim, mode, header, index, entry,
                   seq, qual, sample_id, times, annot, tag_elem_num, record,
                   yielded>>
    /\ UNCHANGED trimVars

\* lines 105-113: times, annot, seek(0), read and unpack the header
ReadHeader ==
    /\ pc = "header"
    /\ times' = [k \in TimeKeys |-> StrVal(<<>>)]
    /\ annot' = [k \in AnnotKeys |->
                    IF k \in {"run_start", "run_finish"} THEN Unbound ELSE None]
    /\ \E n \in 0..MaxDir : header' = [unpacked |-> TRUE, head_elem_num |-> n]
    /\ io' = io + 2
    /\ index' = 0
    /\ pc' = "loop"
    /\ UNCHANGED <<arg_alphabet, alphabet, trim, mode, marker, entry, seq,
                   qual, sample_id, tag_elem_num, record, yielded, error>>
    /\ UNCHANGED trimVars

\* _abi_parse_header, one pass of its while loop: seek, read and unpack one
\* directory entry; a wanted entry is made a _Dir (seek and read of its data
\* when its code has a format) and yielded to the for loop
ParseEntry ==
    /\ pc = "loop"
    /\ index < header.head_elem_num
    /\ \E d \in DirEntries :
        IF KeyOf(d) \in _EXTRACT_keys \cup _SPCTAGS
        THEN /\ entry' = _Dir(d)
             /\ io' = io + IF d.elem_code \in _BYTEFMT_codes THEN 4 ELSE 2
             /\ pc' = "body"
        ELSE /\ entry' = entry
             /\ io' = io + 2
             /\ pc' = "loop"
    /\ index' = index + 1
    /\ UNCHANGED <<arg_alphabet, alphabet, trim, mode, marker, header, seq,
                   qual, sample_id, times, annot, tag_elem_num, record,
                   yielded, error>>
    /\ UNCHANGED trimVars

\* _abi_parse_header returns: the for loop ends
ParseEnd ==
    /\ pc = "loop"
    /\ index >= header.head_elem_num
    /\ pc' = "assemble"
    /\ UNCHANGED iterVars
    /\ UNCHANGED <<record>>
    /\ UNCHANGED trimVars

\* a value a for loop or set() can walk over
Iterable(v) == v.kind \in {"str", "list", "tuple"}

\* lines 128-131: the alphabet chosen for a base sequence
InferAlphabet(s) ==
    IF Range(s) \cap ambigs # {} THEN "ambiguous_dna" ELSE "unambiguous_dna"

\* lines 124-131
HandlePBAS2 ==
    /\ pc = "body"
    /\ KeyOf(entry) = "PBAS2"
    /\ seq' = entry.tag_data
    /\ tag_elem_num' = [tag_elem_num EXCEPT !["PBAS2"] = entry.elem_num]
    /\ IF alphabet = "None"
       THEN IF Iterable(entry.tag_data)
            THEN /\ alphabet' = InferAlphabet(entry.tag_data.val)
                 /\ pc' = "loop" /\ error' = error
            ELSE /\ alphabet' = alphabet
                 /\ Fail("TypeError")
       ELSE /\ alphabet' = alphabet
            /\ pc' = "loop" /\ error' = error
    /\ UNCHANGED <<arg_alphabet, trim, mode, io, marker, header, index, entry,
                   qual, sample_id, times, annot, record, yielded>>
    /\ UNCHANGED trimVars

\* lines 133-138, the Python 2 branch: qual = [ord(val) for val in tag_data]
HandlePCON2 ==
    /\ pc = "body"
    /\ KeyOf(entry) = "PCON2"
    /\ tag_elem_num' = [tag_elem_num EXCEPT !["PCON2"] = entry.elem_num]
    /\ IF entry.tag_data.kind = "str"
          \/ (Iterable(entry.tag_data) /\ entry.tag_data.val = <<>>)
       THEN /\ qual' = ListVal([k \in 1..Len(entry.tag_data.val) |->
                                   ord(entry.tag_data.val[k])])
            /\ pc' = "loop" /\ error' = error
       ELSE /\ qual' = qual
            /\ Fail("TypeError")
    /\ UNCHANGED <<arg_alphabet, alphabet, trim, mode, io, marker, header,
                   index, entry, seq, sample_id, times, annot, record,
                   yielded>>
    /\ UNCHANGED trimVars

\* lines 140-141
HandleSMPL1 ==
    /\ pc = "body"
    /\ KeyOf(entry) = "SMPL1"
    /\ sample_id' = entry.tag_data
    /\ pc' = "loop"
    /\ UNCHANGED <<arg_alphabet, alphabet, trim, mode, io, marker, header,
                   index, entry, seq, qual, times, annot, tag_elem_num,
                   record, yielded, error>>
    /\ UNCHANGED trimVars

\* lines 142-143
HandleTime ==
    /\ pc = "body"
    /\ KeyOf(entry) \in TimeKeys
    /\ times' = [times EXCEPT ![KeyOf(entry)] = entry.tag_data]
    /\ pc' = "loop"
    /\ UNCHANGED <<arg_alphabet, alphabet, trim, mode, io, marker, header,
                   index, entry, seq, qual, sample_id, annot, tag_elem_num,
                   record, yielded, error>>
    /\ UNCHANGED trimVars

\* lines 144-147
HandleExtract ==
    /\ pc = "body"
    /\ KeyOf(entry) \notin {"PBAS2", "PCON2", "SMPL1"} \cup TimeKeys
    /\ annot' = IF KeyOf(entry) \in _EXTRACT_keys
                THEN [annot EXCEPT ![_EXTRACT(KeyOf(entry))] = entry.tag_data]
                ELSE annot
    /\ pc' = "loop"
    /\ UNCHANGED <<arg_alphabet, alphabet, trim, mode, io, marker, header,
                   index, entry, seq, qual, sample_id, times, tag_elem_num,
                   record, yielded, error>>
    /\ UNCHANGED trimVars

\* MakeRecord with seq, sample_id and qual defaulting to empty values
\* (faulty variant)
MakeRecord_Defaults(annotations, file_name) ==
    SeqRecord(IF seq.kind = "str" THEN seq ELSE StrVal(<<>>), alphabet,
              IF sample_id = Unbound THEN StrVal(<<>>) ELSE sample_id,
              file_name, annotations,
              IF qual.kind = "list" THEN qual ELSE ListVal(<<>>))

\* lines 159-163: the record, or the exception its construction raises.
\* Reading a local that was never assigned raises UnboundLocalError; Seq
\* takes a str only.
MakeRecord(annotations, file_name) ==
    IF seq = Unbound THEN Raise("UnboundLocalError")
    ELSE IF seq.kind # "str" THEN Raise("TypeError")
    ELSE IF sample_id = Unbound THEN Raise("UnboundLocalError")
    ELSE IF qual = Unbound THEN Raise("UnboundLocalError")
    ELSE SeqRecord(seq, alphabet, sample_id, file_name, annotations, qual)

\* lines 150-163; the handle has no name, so file_name is ''
Assemble ==
    /\ pc = "assemble"
    /\ annot' = [annot EXCEPT
                    !["run_start"] = FormatPair(times["RUND1"], times["RUNT1"]),
                    !["run_finish"] = FormatPair(times["RUND2"], times["RUNT2"])]
    /\ LET made == MakeRecord(annot', <<>>)
       IN  IF made.kind = "SeqRecord"
           THEN /\ record' = made
                /\ pc' = IF trim THEN "trim" ELSE "yield"
                /\ error' = error
           ELSE /\ record' = record
                /\ Fail(made.kind)
    /\ UNCHANGED <<arg_alphabet, alphabet, trim, mode, io, marker, header,
                   index, entry, seq, qual, sample_id, times, tag_elem_num,
                   yielded>>
    /\ UNCHANGED trimVars

\* line 166: yield record
Yield ==
    /\ pc = "yield"
    /\ yielded' = Append(yielded, record)
    /\ pc' = "resumed"
    /\ UNCHANGED <<arg_alphabet, alphabet, trim, mode, io, marker, header,
                   index, entry, seq, qual, sample_id, times, annot,
                   tag_elem_num, record, error>>
    /\ UNCHANGED trimVars

\* line 168: yield _abi_trim(record), once _abi_trim has returned
YieldTrimmed ==
    /\ pc = "trimmed"
    /\ yielded' = Append(yielded, trimmed)
    /\ pc' = "resumed"
    /\ UNCHANGED <<arg_alphabet, alphabet, trim, mode, io, marker, header,
                   index, entry, seq, qual, sample_id, times, annot,
                   tag_elem_num, record, error>>
    /\ UNCHANGED trimVars

\* the generator is resumed after its yield and runs off its end
Finish ==
    /\ pc = "resumed"
    /\ pc' = "done"
    /\ UNCHANGED iterVars
    /\ UNCHANGED <<record>>
    /\ UNCHANGED trimVars

----------------------------------------------------------------------------
(* _abi_trim *)

\* scores are kept in units of 1/Scale
Scale == 10 ^ 5

\* line 220: cutoff = 0.05
cutoff == (5 * Scale) \div 100

\* line 226: cutoff - (10 ** (qual/-10.0)), for qual a multiple of 10 in 0..50.
\* On the quality values drawn below the doubles of the code and these
\* integers have the same sign at every index of cummul_score and give the
\* same trim_start and trim_finish.
BaseScore(q) == cutoff - (Scale \div (10 ^ (q \div 10)))

\* LoopBody recording the index after the current one (faulty variant)
LoopBody_StartAfter(t, sl, k) ==
    LET score == t.cummul_score[Len(t.cummul_score)] + sl[k + 1]
    IN  IF score < 0
        THEN [t EXCEPT !.cummul_score = Append(t.cummul_score, 0)]
        ELSE IF ~t.start
        THEN [cummul_score |-> Append(t.cummul_score, score),
              start |-> TRUE, trim_start |-> k + 1]
        ELSE [t EXCEPT !.cummul_score = Append(t.cummul_score, score)]

\* LoopBody without the test of the start flag (faulty variant)
LoopBody_NoFlag(t, sl, k) ==
    LET score == t.cummul_score[Len(t.cummul_score)] + sl[k + 1]
    IN  IF score < 0
        THEN [t EXCEPT !.cummul_score = Append(t.cummul_score, 0)]
        ELSE [cummul_score |-> Append(t.cummul_score, score),
              start |-> TRUE, trim_start |-> k]

\* lines 235-243, the body of the loop at index k (0-based), on the locals
\* t = [cummul_score, start, trim_start]
LoopBody(t, sl, k) ==
    LET score == t.cummul_score[Len(t.cummul_score)] + sl[k + 1]
    IN  IF score < 0
        THEN [t EXCEPT !.cummul_score = Append(t.cummul_score, 0)]
        ELSE IF ~t.start
        THEN [cummul_score |-> Append(t.cummul_score, score),
              start |-> TRUE, trim_start |-> k]
        ELSE [t EXCEPT !.cummul_score = Append(t.cummul_score, score)]

\* the largest element of a non-empty sequence of numbers
MaxOf(s) == CHOOSE m \in Range(s) : \A x \in Range(s) : x <= m

\* line 247: cummul_score.index(max(cummul_score)), a 0-based index
IndexOfMax(s) ==
    (CHOOSE k \in 1..Len(s) :
        /\ s[k] = MaxOf(s)
        /\ \A j \in 1..(k - 1) : s[j] # MaxOf(s)) - 1

\* TrimSlice with the end index included (faulty variant)
TrimSlice_Inclusive(r, a, b) == SliceRecord(r, a, b + 1)

\* line 249: seq_record[trim_start:trim_finish]
TrimSlice(r, a, b) == SliceRecord(r, a, b)

\* lines 217-223, a record no longer than segment: returned as it is
TrimShort ==
    /\ pc = "trim"
    /\ Len(record.seq) <= segment
    /\ start' = FALSE
    /\ trim_start' = 0
    /\ trimmed' = record
    /\ pc' = "trimmed"
    /\ UNCHANGED <<score_list, cummul_score, i, trim_finish>>
    /\ UNCHANGED iterVars
    /\ UNCHANGED <<record>>

\* lines 217-233, a longer record: the base scores and cummul_score = [0]
TrimScore ==
    /\ pc = "trim"
    /\ Len(record.seq) > segment
    /\ start' = FALSE
    /\ trim_start' = 0
    /\ score_list' = [k \in 1..Len(record.phred_quality) |->
                         BaseScore(record.phred_quality[k])]
    /\ cummul_score' = <<0>>
    /\ i' = 1
    /\ pc' = "trimloop"
    /\ UNCHANGED <<trim_finish, trimmed>>
    /\ UNCHANGED iterVars
    /\ UNCHANGED <<record>>

\* lines 234-243, one pass of: for i in range(1, len(score_list))
TrimLoop ==
    /\ pc = "trimloop"
    /\ i < Len(score_list)
    /\ LET t == LoopBody([cummul_score |-> cummul_score, start |-> start,
                          trim_start |-> trim_start], score_list, i)
       IN  /\ cummul_score' = t.cummul_score
           /\ start' = t.start
           /\ trim_start' = t.trim_start
    /\ i' = i + 1
    /\ UNCHANGED <<score_list, trim_finish, trimmed, pc>>
    /\ UNCHANGED iterVars
    /\ UNCHANGED <<record>>

\* lines 247-249
TrimFinish ==
    /\ pc = "trimloop"
    /\ i >= Len(score_list)
    /\ trim_finish' = IndexOfMax(cummul_score)
    /\ trimmed' = TrimSlice(record, trim_start, trim_finish')
    /\ pc' = "trimmed"
    /\ UNCHANGED <<start, trim_start, score_list, cummul_score, i>>
    /\ UNCHANGED iterVars
    /\ UNCHANGED <<record>>

----------------------------------------------------------------------------
(* The generator, from its first next() to its end *)

Next ==
    \/ CheckAlphabet
    \/ CheckMode
    \/ ReadMarker
    \/ ReadHeader
    \/ ParseEntry
    \/ ParseEnd
    \/ HandlePBAS2
    \/ HandlePCON2
    \/ HandleSMPL1
    \/ HandleTime
    \/ HandleExtract
    \/ Assemble
    \/ Yield
    \/ TrimShort
    \/ TrimScore
    \/ TrimLoop
    \/ TrimFinish
    \/ YieldTrimmed
    \/ Finish

Spec == Init /\ [][Next]_vars

----------------------------------------------------------------------------
(* _abi_trim alone, on records of any quality profile *)

\* the quality values drawn
QualValues == {0, 10, 30}

\* a quality list of n values in three runs: a times qa, b times qb, then qc
Runs(n, a, b, qa, qb, qc) ==
    [k \in 1..n |-> IF k <= a THEN qa ELSE IF k <= a + b THEN qb ELSE qc]

\* the first base is K, the last is C, the bases between are A
TrimBases(n) ==
    [k \in 1..n |-> IF k = 1 THEN "K" ELSE IF k = n THEN "C" ELSE "A"]

TrimRecords ==
    {[kind |-> "SeqRecord", seq |-> TrimBases(n), alphabet |-> "ambiguous_dna",
      id |-> StrVal(<<"s">>), name |-> <<>>,
      annotations |-> [k \in AnnotKeys |-> None],
      phred_quality |-> Runs(n, a, b, qa, qb, qc)] :
        n \in segment..(segment + MaxOver), a \in 0..(segment + MaxOver),
        b \in 0..(segment + MaxOver), qa \in QualValues, qb \in QualValues,
        qc \in QualValues}

InitTrim ==
    /\ arg_alphabet = "None"
    /\ alphabet = "ambiguous_dna"
    /\ trim = TRUE
    /\ mode = <<>>
    /\ pc = "trim"
    /\ io = 0
    /\ marker = ABIF
    /\ header = NoHeader
    /\ index = 0
    /\ entry = NoEntry
    /\ seq = Unbound /\ qual = Unbound /\ sample_id = Unbound
    /\ times = [k \in TimeKeys |-> Unbound]
    /\ annot = [k \in AnnotKeys |-> Unbound]
    /\ tag_elem_num = [k \in {"PBAS2", "PCON2"} |-> 0]
    /\ record \in TrimRecords
    /\ yielded = <<>>
    /\ error = "none"
    /\ start = FALSE /\ trim_start = 0 /\ score_list = <<>>
    /\ cummul_score = <<>> /\ i = 0 /\ trim_finish = 0
    /\ trimmed = NoRecord

NextTrim ==
    \/ TrimShort
    \/ TrimScore
    \/ TrimLoop
    \/ TrimFinish

SpecTrim == InitTrim /\ [][NextTrim]_vars

----------------------------------------------------------------------------
(* Properties of _abi_trim, checked under SpecTrim *)

\* _abi_trim has returned from a record longer than segment
TrimDone == pc = "trimmed" /\ Len(record.seq) > segment

\* C1: for a record longer than 20 the bounds used to slice it satisfy
\* 0 <= trim_start <= trim_finish <= length.
C1_TrimBounds ==
    TrimDone =>
        /\ 0 <= trim_start
        /\ trim_start <= trim_finish
        /\ trim_finish <= Len(record.seq)

\* a trim that cuts bases at both ends and keeps some
C1_Witness ==
    /\ TrimDone
    /\ 1 < trim_start
    /\ trim_start < trim_finish
    /\ trim_finish < Len(record.seq) - 1

\* cum[0] = 0, cum[k] = max(0, cum[k-1] + score[k]) for k = 1..n-1, as a
\* sequence whose element k + 1 is cum[k]
RECURSIVE Cum(_, _)
Cum(sl, n) ==
    IF n = 1 THEN <<0>>
    ELSE LET c == Cum(sl, n - 1)
         IN  Append(c, Max(0, c[n - 1] + sl[n]))

\* the indices (0-based) at which cum is strictly positive
PositiveAt(c) == {k \in 0..(Len(c) - 1) : c[k + 1] > 0}

\* the least element of a non-empty set of numbers
Least(S) == CHOOSE m \in S : \A x \in S : m <= x

\* C9: with cum as above, trim_start is the first index at which cum is
\* strictly positive and 0 when there is none, and the loop assigns it at most
\* once: trim_start changes only in the step that raises the start flag, and
\* the flag is never lowered again.
C9_TrimStart ==
    /\ [](TrimDone =>
            LET c == Cum(score_list, Len(score_list))
            IN  /\ cummul_score = c
                /\ trim_start = IF PositiveAt(c) = {} THEN 0
                                ELSE Least(PositiveAt(c)))
    /\ [][(pc = "trimloop" /\ trim_start' # trim_start) => (~start /\ start')]_vars
    /\ [][(pc = "trimloop" /\ start) => start']_vars

\* the cumulative score became positive, fell back to 0 and became positive
\* again
C9_Witness ==
    /\ TrimDone
    /\ trim_start >= 1
    /\ \E j \in 1..Len(cummul_score) : \E k \in 1..Len(cummul_score) :
        /\ trim_start + 1 < j /\ j < k
        /\ cummul_score[j] = 0
        /\ cummul_score[k] > 0

\* C10: the record returned for a record longer than 20 holds neither the
\* first base (K) nor the last base (C) of the input: it is the bases at the
\* indices trim_start..trim_finish-1, all within 1..length-2 when there are
\* any; it is shorter than the input, and empty when the cumulative score is
\* positive at one index only.
C10_EndsDropped ==
    TrimDone =>
        /\ "K" \notin Range(trimmed.seq)
        /\ "C" \notin Range(trimmed.seq)
        /\ trimmed.seq = [k \in 1..(trim_finish - trim_start) |->
                             record.seq[trim_start + k]]
        /\ trimmed.seq # <<>> =>
              (1 <= trim_start /\ trim_finish - 1 <= Len(record.seq) - 2)
        /\ Len(trimmed.seq) < Len(record.seq)
        /\ Cardinality(PositiveAt(cummul_score)) = 1 => trimmed.seq = <<>>

\* every base but the first and the last is kept
C10_Witness ==
    /\ TrimDone
    /\ Len(trimmed.seq) = Len(record.seq) - 2

----------------------------------------------------------------------------
(* Properties of AbiIterator, checked under Spec *)

\* the whole directory was read
Walked == header.unpacked /\ index = header.head_elem_num

\* the last entry read is a base sequence or quality tag decoded to None
LastMandatoryIsNone ==
    KeyOf(entry) \in {"PBAS2", "PCON2"} /\ entry.tag_data = None

ValidStream ==
    /\ marker = ABIF
    /\ Walked
    /\ ~LastMandatoryIsNone
    /\ seq.kind = "str"
    /\ qual.kind = "list"
    /\ Len(seq.val) = Len(qual.val)
    /\ sample_id # Unbound

\* C3: at most one record is emitted per stream; an empty first read ends the
\* generator with no record and no error; a valid stream gives exactly one
\* record; and the generator always has a next step until it is done.
C3_AtMostOne ==
    /\ Len(yielded) <= 1
    /\ (pc = "done" /\ marker = <<>>) => (yielded = <<>> /\ error = "none")
    /\ (pc = "done" /\ ValidStream) => (Len(yielded) = 1 /\ error = "none")
    /\ pc = "resumed" => Len(yielded) = 1
    /\ pc # "done" => ENABLED Next

\* a valid stream was read and its one record emitted
C3_Witness ==
    /\ pc = "done"
    /\ ValidStream
    /\ Len(yielded) = 1

\* C4: when the first four bytes are not empty and are not ABIF, the generator
\* has failed with IOError after one seek and one read, with no header
\* unpacked, no directory entry read and no record emitted.
C4_BadMagic ==
    (marker # Unread /\ marker # <<>> /\ marker # ABIF) =>
        /\ pc = "done"
        /\ error = "IOError"
        /\ io = 2
        /\ ~header.unpacked
        /\ index = 0
        /\ entry = NoEntry
        /\ yielded = <<>>

C4_Witness ==
    /\ marker = <<"X", "X", "I", "F">>
    /\ pc = "done"

\* C5: with a protein or RNA alphabet (plain or wrapped) the first step fails
\* with the invalid alphabet error, before any seek or read.
C5_BadAlphabet ==
    (arg_alphabet \in {"generic_protein", "Gapped(generic_protein)", "generic_rna"}
       /\ pc # "alphabet") =>
        /\ pc = "done"
        /\ error \in {"ValueError: proteins", "ValueError: RNA"}
        /\ io = 0
        /\ marker = Unread
        /\ yielded = <<>>

C5_Witness ==
    /\ arg_alphabet = "generic_rna"
    /\ pc = "done"
    /\ error = "ValueError: RNA"

C7_Classification ==
    arg_alphabet = "None" =>
        \A k \in 1..Len(yielded) :
            yielded[k].alphabet =
                IF Range(yielded[k].seq) \cap {"K", "Y", "W", "M", "R", "S"} # {}
                THEN "ambiguous_dna" ELSE "unambiguous_dna"

====
